---- MODULE Spec2Model ----
(***************************************************************************)
(* Model of yt/analysis_modules/photon_simulator/spectral_models.py:      *)
(* the energy grid of SpectralModel, the table-backed emission model      *)
(* TableApecModel, the table-backed absorption model TableAbsorbModel and  *)
(* the XSPEC-backed models XSpecThermalModel and XSpecAbsorbModel.         *)
(*                                                                         *)
(* Floating-point quantities are modelled as exact rationals <<n, d>>      *)
(* with d > 0 and gcd(n, d) = 1, so that equality of quantities is         *)
(* equality of values.  Quantities that have no rational value are kept    *)
(* as what they are computed from: a wavelength as its multiple of hc, a   *)
(* value of the Gaussian cdf as a term, exp(x) as its exponent.            *)
(***************************************************************************)
EXTENDS Integers, Sequences, FiniteSets, TLC

VARIABLES
    sm,        \* the SpectralModel built in the grid scenario
    files,     \* which table files exist on disk
    tab,       \* the content of the APEC line and continuum files
    model,     \* the table-backed model object (TableApecModel or TableAbsorbModel)
    prepared,  \* the object as its last successful prepare_spectrum left it
    logged,    \* the messages written with mylog.error
    xspec,     \* the XSPEC session of the process: the settings all models share
    inst,      \* the two XSPEC-backed model objects, by name
    ret        \* the outcome of the last call: what it returned or raised

vars == <<sm, files, tab, model, prepared, logged, xspec, inst, ret>>

(***************************************************************************)
(* Bounds of the model.                                                    *)
(***************************************************************************)
MaxEnergy == 4      \* emin, emax range over 0..MaxEnergy (keV)
MaxChan == 3        \* nchan ranges over -2..MaxChan
MaxTemps == 3       \* the temperature grid has 1..MaxTemps entries
MaxRedshift == 1    \* zobs ranges over 0..MaxRedshift
MaxColumn == 2      \* nH ranges over 0..MaxColumn (in 10^22 cm^-2)

(***************************************************************************)
(* Exact rational arithmetic.                                              *)
(***************************************************************************)
Abs(x) == IF x < 0 THEN -x ELSE x

RECURSIVE GCD(_, _)
GCD(a, b) == IF b = 0 THEN a ELSE GCD(b, a % b)

\* n/d with the common divisor g taken out and a positive denominator.
Reduce(n, d, g) ==
    IF d < 0 THEN <<(-n) \div g, (-d) \div g>> ELSE <<n \div g, d \div g>>

\* The rational n/d in lowest terms with a positive denominator (d # 0).
R(n, d) == Reduce(n, d, GCD(Abs(n), Abs(d)))

RInt(k) == <<k, 1>>

\* Sums and comparisons go through the least common denominator (g is the
\* gcd of the denominators) and products cancel crosswise first (g1, g2), to
\* keep intermediate integers small.
AddOver(a, b, g) ==
    R(a[1] * (b[2] \div g) + b[1] * (a[2] \div g), (a[2] \div g) * b[2])
MulOver(a, b, g1, g2) ==
    R((a[1] \div g1) * (b[1] \div g2), (a[2] \div g2) * (b[2] \div g1))
LessOver(a, b, g) == a[1] * (b[2] \div g) < b[1] * (a[2] \div g)

RAdd(a, b) == AddOver(a, b, GCD(a[2], b[2]))
RNeg(a) == <<-a[1], a[2]>>
RSub(a, b) == RAdd(a, RNeg(b))
RMul(a, b) == MulOver(a, b, GCD(Abs(a[1]), b[2]), GCD(Abs(b[1]), a[2]))
\* 1 / b and a / b for b # 0
RInv(b) == IF b[1] < 0 THEN <<-b[2], -b[1]>> ELSE <<b[2], b[1]>>
RDiv(a, b) == RMul(a, RInv(b))
RLt(a, b) == LessOver(a, b, GCD(a[2], b[2]))
RLe(a, b) == ~RLt(b, a)
RZero == <<0, 1>>
ROne == <<1, 1>>
RHalf == <<1, 2>>

(***************************************************************************)
(* numpy helpers used by the constructors.                                 *)
(***************************************************************************)
\* np.linspace raises ValueError for a negative number of samples.
linspace_raises(num) == num < 0

\* np.linspace(start, stop, num, endpoint=False): the samples stop one step
\* short of stop.  Not what the constructor calls; the grid property must
\* tell it from linspace.
linspace_open(start, stop, num) ==
    IF num = 0 THEN << >>
    ELSE [i \in 1..num |->
             RAdd(RMul(RInt(i - 1), RDiv(RSub(stop, start), RInt(num))), start)]

\* np.linspace(start, stop, num), num >= 0: num evenly spaced samples, the
\* last one set to stop; a single sample is start.
linspace(start, stop, num) ==
    IF num = 0 THEN << >>
    ELSE IF num = 1 THEN <<start>>
    ELSE LET step == RDiv(RSub(stop, start), RInt(num - 1))
         IN  [i \in 1..num |->
                 IF i = num THEN stop
                 ELSE RAdd(RMul(RInt(i - 1), step), start)]

\* np.diff(a): consecutive differences, one entry fewer (none of an empty a).
diff(a) == [i \in 1..(Len(a) - 1) |-> RSub(a[i + 1], a[i])]

\* 0.5*(a[1:] + a[:-1]): midpoints of consecutive entries.
midpoints(a) == [i \in 1..(Len(a) - 1) |-> RMul(RHalf, RAdd(a[i + 1], a[i]))]

(***************************************************************************)
(* SpectralModel.__init__(emin, emax, nchan): no argument is validated;   *)
(* the only failure is np.linspace's own refusal of a negative sample     *)
(* count.  The result is the object's attributes (cls = "SpectralModel"), *)
(* or the error raised (cls = "ValueError", no object).                    *)
(***************************************************************************)
SpectralModelFields(emin, emax, nchan, ebins) ==
    [cls |-> "SpectralModel",
     emin |-> emin, emax |-> emax, nchan |-> nchan,
     ebins |-> ebins, de |-> diff(ebins), emid |-> midpoints(ebins)]

SpectralModelInit(emin, emax, nchan) ==
    IF linspace_raises(nchan + 1) THEN [cls |-> "ValueError"]
    ELSE SpectralModelFields(emin, emax, nchan, linspace(emin, emax, nchan + 1))

(***************************************************************************)
(* Python and numpy semantics used by the table-backed models.  Arrays    *)
(* are sequences; the source's 0-based index i names element i + 1.       *)
(***************************************************************************)
\* a[i] on a Python sequence or numpy array of length n is defined for
\* -n <= i < n (a negative index counts from the end) and raises IndexError
\* otherwise.
PyIndexOk(n, i) == (-n <= i) /\ (i < n)
PyAt(a, i) == a[IF i < 0 THEN Len(a) + i + 1 ELSE i + 1]

\* np.searchsorted(a, v, side) on a sorted array a: the insertion point, i.e.
\* the number of entries < v (side = 'left', the default) or <= v ('right').
searchsorted_left(a, v) == Cardinality({i \in 1..Len(a) : RLt(a[i], v)})
searchsorted_right(a, v) == Cardinality({i \in 1..Len(a) : RLe(a[i], v)})

\* elementwise a + b, a * b, and c * a for a scalar c, on arrays of rationals
VAdd(a, b) == [i \in 1..Len(a) |-> RAdd(a[i], b[i])]
VScale(c, a) == [i \in 1..Len(a) |-> RMul(c, a[i])]
VMul(a, b) == [i \in 1..Len(a) |-> RMul(a[i], b[i])]

(***************************************************************************)
(* Channel values.  scipy.stats.norm(E, sig).cdf(x) has no rational value, *)
(* so a value computed from it is kept as what it was computed from: a     *)
(* channel value is [q |-> r, phi |-> f], standing for                     *)
(*     r + the sum over <<k, c>> in f of c * Phi(k),                       *)
(* where r and the coefficients c are rationals and Phi(k), for the term   *)
(* k = [E |-> E, sig |-> [E0 |-> E0, T |-> kT, A |-> m], x |-> x], is the  *)
(* Gaussian cdf at x with mean E and standard deviation                    *)
(* E0*sqrt(kT*erg_per_keV/(m*amu_cgs))/cl.  f holds one pair per term and  *)
(* no zero coefficient, so equal values have equal representations.        *)
(***************************************************************************)
Num(r) == [q |-> r, phi |-> {}]

Terms(f) == {p[1] : p \in f}
Coef(f, k) ==
    IF k \in Terms(f) THEN (CHOOSE p \in f : p[1] = k)[2] ELSE RZero

PhiSum(f, g, D) ==
    {<<k, RAdd(Coef(f, k), Coef(g, k))>> :
        k \in {t \in D : RAdd(Coef(f, t), Coef(g, t)) # RZero}}
PhiAdd(f, g) ==
    IF f = {} THEN g
    ELSE IF g = {} THEN f
    ELSE PhiSum(f, g, Terms(f) \cup Terms(g))
PhiScale(c, f) ==
    IF c = RZero THEN {} ELSE {<<p[1], RMul(c, p[2])>> : p \in f}

\* x + y, c * x and x - y on channel values, c a rational
NAdd(x, y) == [q |-> RAdd(x.q, y.q), phi |-> PhiAdd(x.phi, y.phi)]
NScale(c, x) == [q |-> RMul(c, x.q), phi |-> PhiScale(c, x.phi)]
NSub(x, y) == NAdd(x, NScale(RNeg(ROne), y))

\* np.zeros(n), and an array of rationals as channel values
zeros(n) == [i \in 1..n |-> Num(RZero)]
channel_values(v) == [i \in 1..Len(v) |-> Num(v[i])]

\* elementwise a + b (built entry by entry from entry k on) and c * a on
\* arrays of channel values
RECURSIVE SAddFrom(_, _, _)
SAddFrom(a, b, k) ==
    IF k > Len(a) THEN << >>
    ELSE <<NAdd(a[k], b[k])>> \o SAddFrom(a, b, k + 1)
SAdd(a, b) == SAddFrom(a, b, 1)
SScale(c, a) == [i \in 1..Len(a) |-> NScale(c, a[i])]

\* a.min(), a.max() of a non-empty array
RMin(a) == CHOOSE x \in {a[i] : i \in 1..Len(a)} :
               \A j \in 1..Len(a) : RLe(x, a[j])
RMax(a) == CHOOSE x \in {a[i] : i \in 1..Len(a)} :
               \A j \in 1..Len(a) : RLe(a[j], x)

\* np.interp(x, xp, fp) for one x and increasing sample points xp (at least
\* one): linear interpolation, held constant outside [xp[0], xp[-1]].
interp_between(x, xp, fp, j) ==
    RAdd(fp[j], RMul(RDiv(RSub(fp[j + 1], fp[j]), RSub(xp[j + 1], xp[j])),
                     RSub(x, xp[j])))

interp1(x, xp, fp) ==
    IF RLe(x, xp[1]) THEN fp[1]
    ELSE IF RLe(xp[Len(xp)], x) THEN fp[Len(xp)]
    ELSE interp_between(x, xp, fp,
             CHOOSE k \in 1..(Len(xp) - 1) : RLe(xp[k], x) /\ RLt(x, xp[k + 1]))

interp(xs, xp, fp) == [i \in 1..Len(xs) |-> interp1(xs[i], xp, fp)]

\* a[:n]
prefix(a, n) == [i \in 1..n |-> a[i]]

(***************************************************************************)
(* Module constants of spectral_models.py and the static tables of         *)
(* TableApecModel.__init__.                                                *)
(***************************************************************************)
\* hc = (hcgs*clight) in keV*angstrom is 12.398419315219659, which enters
\* the program only as hc/energy and hc/wavelength.  A wavelength is kept as
\* its multiple of hc: [hc |-> k] stands for k * hc angstrom, k a rational
\* in 1/keV.  hc_over_energy(e) is hc/e; hc_over_lambda(w) is hc/w in keV.
hc_over_energy(e) == [hc |-> RInv(e)]
hc_over_lambda(w) == RInv(w.hc)

\* a < b on wavelengths, and a.min(), a.max() of a non-empty array of them
WLt(a, b) == RLt(a.hc, b.hc)
WMin(a) == CHOOSE x \in {a[i] : i \in 1..Len(a)} :
               \A j \in 1..Len(a) : ~WLt(a[j], x)
WMax(a) == CHOOSE x \in {a[i] : i \in 1..Len(a)} :
               \A j \in 1..Len(a) : ~WLt(x, a[j])

\* self.cosmic_elem: H, He and trace elements; self.metal_elem: the metals.
\* A metal list that names hydrogen too.  Not the list of the code; the
\* partition property must tell it from metal_elem.
metal_elem_with_hydrogen == <<1, 6, 7, 8, 10, 12, 13, 14, 16, 18, 20, 26, 28>>

cosmic_elem == <<1, 2, 3, 4, 5, 9, 11, 15, 17, 19, 21, 22, 23, 24, 25, 27, 29, 30>>
metal_elem == <<6, 7, 8, 10, 12, 13, 14, 16, 18, 20, 26, 28>>

\* self.A: atomic masses indexed by atomic number (entry 0 is 0.0).
A == <<RZero, R(100794, 100000), R(400262, 100000), R(6941, 1000),
       R(9012182, 1000000), R(10811, 1000),
       R(120107, 10000), R(140067, 10000), R(159994, 10000),
       R(189984, 10000), R(201797, 10000),
       R(229898, 10000), R(243050, 10000), R(269815, 10000),
       R(280855, 10000), R(309738, 10000),
       R(320650, 10000), R(354530, 10000), R(399480, 10000),
       R(390983, 10000), R(400780, 10000),
       R(449559, 10000), R(478670, 10000), R(509415, 10000),
       R(519961, 10000), R(549380, 10000),
       R(558450, 10000), R(589332, 10000), R(586934, 10000),
       R(635460, 10000), R(653800, 10000)>>

(***************************************************************************)
(* TableApecModel.__init__(apec_root, emin, emax, nchan, apec_vers,        *)
(* thermal_broad): file names are only composed, nothing is opened.        *)
(* `assigned` is the set of attributes prepare_spectrum has set so far;    *)
(* an attribute outside it does not exist on the object.                   *)
(***************************************************************************)
\* self.wvbins = hc/self.ebins[::-1]
wvbins_of(ebins) ==
    [i \in 1..Len(ebins) |-> hc_over_energy(ebins[Len(ebins) + 1 - i])]

TableApecModelFields(base, thermal_broad) ==
    IF base.cls = "ValueError" THEN base
    ELSE [cls |-> "TableApecModel",
          emin |-> base.emin, emax |-> base.emax, nchan |-> base.nchan,
          ebins |-> base.ebins, de |-> base.de, emid |-> base.emid,
          wvbins |-> wvbins_of(base.ebins),
          thermal_broad |-> thermal_broad,
          assigned |-> {},
          Tvals |-> << >>, dTvals |-> << >>,
          minlam |-> [hc |-> RZero], maxlam |-> [hc |-> RZero],
          scale_factor |-> RZero]

TableApecModelInit(emin, emax, nchan, thermal_broad) ==
    TableApecModelFields(SpectralModelInit(emin, emax, nchan), thermal_broad)

PreparedAttrs == {"line_handle", "coco_handle", "Tvals", "dTvals",
                  "minlam", "maxlam", "scale_factor"}

(***************************************************************************)
(* TableApecModel.prepare_spectrum(zobs) on object self, with the files    *)
(* present as disk.line and disk.coco say and holding the tables t.        *)
(* Returns the object after the call, the outcome and what was logged.     *)
(***************************************************************************)
\* self.line_handle = pyfits.open(self.linefile) has succeeded.
with_line_handle(self) == [self EXCEPT !.assigned = @ \cup {"line_handle"}]

\* Both files are open: source lines 233-237.
with_tables(self, zobs, t) ==
    [self EXCEPT !.assigned = PreparedAttrs,
                 !.Tvals = t.Tvals,
                 !.dTvals = diff(t.Tvals),
                 !.minlam = WMin(self.wvbins),
                 !.maxlam = WMax(self.wvbins),
                 !.scale_factor = RDiv(ROne, RAdd(ROne, zobs))]

prepare_spectrum(self, zobs, disk, t) ==
    IF ~disk.line
    THEN [self |-> self, status |-> "IOError",
          logged |-> {"LINE file does not exist"}]
    ELSE IF ~disk.coco
    THEN [self |-> with_line_handle(self), status |-> "IOError",
          logged |-> {"COCO file does not exist"}]
    ELSE [self |-> with_tables(self, zobs, t), status |-> "ok", logged |-> {}]

(***************************************************************************)
(* TableApecModel._make_spectrum(element, tindex): the spectrum of one     *)
(* element from table block tindex, with t the content of the open files.  *)
(* A file of n temperatures is a list of n + 2 blocks: block 0 is the      *)
(* primary block, which has no data, block 1 is the parameter table, which *)
(* has none of the columns read here, and blocks 2..n+1 are the tables     *)
(* t.line[b] and t.coco[b].                                                *)
(***************************************************************************)
\* len(self.line_handle), and the block a valid Python index names.
block_count(t) == Len(t.Tvals) + 2
block_of(t, tindex) == IF tindex < 0 THEN block_count(t) + tindex ELSE tindex

\* The rows of line block b of the element whose rest wavelength lies
\* strictly between minlam and maxlam, in table order.
selected_lines(self, t, element, b) ==
    SelectSeq(t.line[b],
              LAMBDA r : /\ r.element = element
                         /\ WLt(self.minlam, r.lambda)
                         /\ WLt(r.lambda, self.maxlam))

\* E0 = hc/lambda*scale_factor of one table row.
line_E0(self, row) == RMul(hc_over_lambda(row.lambda), self.scale_factor)

\* ie = np.searchsorted(ebins, E0, side='right')-1 of one table row.
line_bin(self, row) == searchsorted_right(self.ebins, line_E0(self, row)) - 1

\* vec[i] += a, i a valid Python index: i = -1 names the last channel.
add_at(vec, i, a) ==
    [vec EXCEPT ![IF i < 0 THEN Len(vec) + i + 1 ELSE i + 1] = NAdd(@, Num(a))]

\* Without broadening: for i, a in zip(ie, amp): vec[i] += a, from row k on.
RECURSIVE deposit_lines(_, _, _, _)
deposit_line(self, rows, k, vec, ie) ==
    IF ~PyIndexOk(Len(vec), ie)
    THEN [status |-> "IndexError", value |-> vec]
    ELSE deposit_lines(self, rows, k + 1, add_at(vec, ie, rows[k].epsilon))

deposit_lines(self, rows, k, vec) ==
    IF k > Len(rows) THEN [status |-> "ok", value |-> vec]
    ELSE deposit_line(self, rows, k, vec, line_bin(self, rows[k]))

\* sigma = E0*np.sqrt(T*erg_per_keV/(A[element]*amu_cgs))/cl of a line at
\* E0, kept as what it is computed from.
line_sigma(E0, T, element) == [E0 |-> E0, T |-> T, A |-> PyAt(A, element)]

\* sig > 0: the width is that of a Gaussian.  (It is 0 or nan for E0 <= 0 or
\* T <= 0, and the cdf is then nan everywhere.)
positive_width(sig) == RLt(RZero, sig.E0) /\ RLt(RZero, sig.T)

\* scipy.stats.norm(E, sig).cdf(x): exactly 1/2 at the mean, and otherwise
\* the term Phi([E, sig, x]).
norm_cdf(E, sig, x) ==
    IF x = E /\ positive_width(sig) THEN Num(RHalf)
    ELSE [q |-> RZero, phi |-> {<<[E |-> E, sig |-> sig, x |-> x], ROne>>}]

\* cdf[1:]*a: the cumulative profile itself, not its differences.  Not what
\* _make_spectrum adds; the in-band law must tell it from line_profile.
line_profile_cumulative(ebins, E, sig, a) ==
    [j \in 1..(Len(ebins) - 1) |-> NScale(a, norm_cdf(E, sig, ebins[j + 1]))]

\* np.diff(cdf)*a of one line at E with width sig, per channel.
line_profile(ebins, E, sig, a) ==
    [j \in 1..(Len(ebins) - 1) |->
        NScale(a, NSub(norm_cdf(E, sig, ebins[j + 1]),
                       norm_cdf(E, sig, ebins[j])))]

broadened_line(ebins, E, T, element, a) ==
    line_profile(ebins, E, line_sigma(E, T, element), a)

\* With broadening: vec += np.diff(cdf)*a for each selected row, from row k on.
RECURSIVE broaden_lines(_, _, _, _, _, _)
broaden_lines(self, rows, k, vec, T, element) ==
    IF k > Len(rows) THEN vec
    ELSE broaden_lines(self, rows, k + 1,
             SAdd(vec, broadened_line(self.ebins, line_E0(self, rows[k]), T,
                                      element, rows[k].epsilon)),
             T, element)

\* The line part of _make_spectrum (source lines 247-260) for the selected
\* rows.  With broadening the width is computed from self.Tvals[tindex],
\* tindex being the table block index as the caller gave it.
lines_of(self, rows, element, tindex) ==
    IF self.thermal_broad
    THEN IF ~PyIndexOk(Len(self.Tvals), tindex)
         THEN [status |-> "IndexError", value |-> << >>]
         ELSE [status |-> "ok",
               value |-> broaden_lines(self, rows, 1, zeros(self.nchan),
                                       PyAt(self.Tvals, tindex), element)]
    ELSE deposit_lines(self, rows, 1, zeros(self.nchan))

line_part(self, t, element, tindex) ==
    lines_of(self, selected_lines(self, t, element, block_of(t, tindex)),
             element, tindex)

\* The continuum and pseudo-continuum of one record (source lines 269-279).
interp_curve(self, n, energies, curve) ==
    VMul(interp(self.emid, VScale(self.scale_factor, prefix(energies, n)),
                prefix(curve, n)),
         self.de)

continuum_of(self, rec) ==
    channel_values(
        VAdd(interp_curve(self, rec.N_Cont, rec.E_Cont, rec.Continuum),
             interp_curve(self, rec.N_Pseudo, rec.E_Pseudo, rec.Pseudo)))

\* The first record of the element with rmJ = 0, if any (lines 262-267).
continuum_records(t, element, b) ==
    SelectSeq(t.coco[b], LAMBDA r : r.Z = element /\ r.rmJ = 0)

add_continuum(self, tmpspec, recs) ==
    IF Len(recs) = 0 THEN tmpspec
    ELSE SAdd(tmpspec, continuum_of(self, recs[1]))

with_continuum(self, t, element, tindex, lines) ==
    IF lines.status # "ok" THEN lines
    ELSE [status |-> "ok",
          value |-> add_continuum(self, lines.value,
                        continuum_records(t, element, block_of(t, tindex)))]

\* What the first read, self.line_handle[tindex].data.field('element'),
\* raises, or "ok": the handle may not exist, the index may name no block,
\* the primary block has data None, the parameter table has no such column.
block_status(self, t, tindex) ==
    IF "line_handle" \notin self.assigned THEN "AttributeError"
    ELSE IF ~PyIndexOk(block_count(t), tindex) THEN "IndexError"
    ELSE IF block_of(t, tindex) = 0 THEN "AttributeError"
    ELSE IF block_of(t, tindex) = 1 THEN "KeyError"
    ELSE "ok"

\* _make_spectrum: the block is read first, then self.minlam, which does not
\* exist on an object prepare_spectrum has not completed on.
make_spectrum(self, t, element, tindex) ==
    IF block_status(self, t, tindex) # "ok"
    THEN [status |-> block_status(self, t, tindex), value |-> << >>]
    ELSE IF "minlam" \notin self.assigned
    THEN [status |-> "AttributeError", value |-> << >>]
    ELSE with_continuum(self, t, element, tindex,
                        line_part(self, t, element, tindex))

(***************************************************************************)
(* TableApecModel.get_spectrum(kT).                                        *)
(***************************************************************************)
\* The sum of _make_spectrum over elems[k..] at block tindex, added to acc.
RECURSIVE sum_elements(_, _, _, _, _, _)
sum_step(self, t, elems, k, tindex, acc, m) ==
    IF m.status # "ok" THEN m
    ELSE IF Len(m.value) # Len(acc)
    THEN [status |-> "ValueError", value |-> << >>]   \* shapes do not broadcast
    ELSE sum_elements(self, t, elems, k + 1, tindex, SAdd(acc, m.value))

sum_elements(self, t, elems, k, tindex, acc) ==
    IF k > Len(elems) THEN [status |-> "ok", value |-> acc]
    ELSE sum_step(self, t, elems, k, tindex, acc,
                  make_spectrum(self, t, elems[k], tindex))

\* np.searchsorted(self.Tvals, kT)-2: the interval before.  Not what
\* get_spectrum selects; the bracketing property must tell it from
\* temperature_index.
temperature_index_before(self, kT) == searchsorted_left(self.Tvals, kT) - 2

\* tindex = np.searchsorted(self.Tvals, kT)-1
temperature_index(self, kT) == searchsorted_left(self.Tvals, kT) - 1

\* left*dT+right*(1.-dT): the weights exchanged.  Not what get_spectrum
\* computes; the interpolation law must tell it from blend.
blend_exchanged(left, right, dT) ==
    SAdd(SScale(dT, left), SScale(RSub(ROne, dT), right))

\* left*(1.-dT)+right*dT
blend(left, right, dT) ==
    SAdd(SScale(RSub(ROne, dT), left), SScale(dT, right))

\* One returned component: the blend of the element sums of the two blocks.
component(left, right, dT) ==
    IF left.status # "ok" THEN left
    ELSE IF right.status # "ok" THEN right
    ELSE [status |-> "ok", value |-> blend(left.value, right.value, dT)]

component_of(self, t, elems, tindex, dT) ==
    component(sum_elements(self, t, elems, 1, tindex + 2, zeros(self.nchan)),
              sum_elements(self, t, elems, 1, tindex + 3, zeros(self.nchan)),
              dT)

\* What get_spectrum returns or raises, given its two components.
spectra(self, cosmic, metal) ==
    IF cosmic.status # "ok"
    THEN [self |-> self, status |-> cosmic.status, cosmic |-> << >>, metal |-> << >>]
    ELSE IF metal.status # "ok"
    THEN [self |-> self, status |-> metal.status, cosmic |-> << >>, metal |-> << >>]
    ELSE [self |-> self, status |-> "ok",
          cosmic |-> cosmic.value, metal |-> metal.value]

interpolate(self, t, tindex, dT) ==
    spectra(self, component_of(self, t, cosmic_elem, tindex, dT),
                  component_of(self, t, metal_elem, tindex, dT))

\* dT = (kT-self.Tvals[tindex])/self.dTvals[tindex]
interpolation_fraction(self, kT, tindex) ==
    RDiv(RSub(kT, PyAt(self.Tvals, tindex)), PyAt(self.dTvals, tindex))

\* A query that keeps the temperature it was asked on the object.  Not what
\* get_spectrum does; the frame property must tell it from get_spectrum_at.
get_spectrum_recording(self, t, kT, tindex) ==
    IF tindex >= Len(self.Tvals) - 1 \/ tindex < 0
    THEN [self |-> [self EXCEPT !.emax = kT], status |-> "ok",
          cosmic |-> zeros(self.nchan), metal |-> zeros(self.nchan)]
    ELSE interpolate([self EXCEPT !.emax = kT], t, tindex,
                     interpolation_fraction(self, kT, tindex))

get_spectrum_at(self, t, kT, tindex) ==
    IF tindex >= Len(self.Tvals) - 1 \/ tindex < 0
    THEN [self |-> self, status |-> "ok",
          cosmic |-> zeros(self.nchan), metal |-> zeros(self.nchan)]
    ELSE interpolate(self, t, tindex, interpolation_fraction(self, kT, tindex))

\* Returns the object after the call, the outcome, and the two components.
get_spectrum(self, t, kT) ==
    IF "Tvals" \notin self.assigned
    THEN [self |-> self, status |-> "AttributeError",
          cosmic |-> << >>, metal |-> << >>]
    ELSE get_spectrum_at(self, t, kT, temperature_index(self, kT))

(***************************************************************************)
(* TableAbsorbModel.  A physical quantity whose magnitude is far from 1 is *)
(* a pair <<m, e>> standing for m * 10^e with m rational: cross-sections   *)
(* are tabulated in units of 10^-22 cm^2 and nH is stored as nH * 1.0e22.  *)
(***************************************************************************)
RECURSIVE Pow10(_)
Pow10(e) == IF e = 0 THEN 1 ELSE 10 * Pow10(e - 1)

\* The rational value of <<m, e>>.
SciValue(x) ==
    IF x[2] >= 0 THEN RMul(x[1], RInt(Pow10(x[2])))
    ELSE RDiv(x[1], RInt(Pow10(-x[2])))
SciMul(x, y) == <<RMul(x[1], y[1]), x[2] + y[2]>>

\* The cross-section table file: datasets "energy" (keV) and "cross_section"
\* (cm^2), one entry per channel; the last cross-section is zero.
AbsorbTable ==
    [energy |-> [i \in 1..MaxChan |-> RInt(i)],
     cross_section |-> [i \in 1..MaxChan |-> <<R(MaxChan - i, 2), -22>>]]

\* TableAbsorbModel.__init__(filename, nH) with the file present or not:
\* a missing file raises IOError here, before anything is read or logged.
TableAbsorbModelFields(base, sigma, nH) ==
    IF base.cls = "ValueError" THEN base
    ELSE [cls |-> "TableAbsorbModel",
          emin |-> base.emin, emax |-> base.emax, nchan |-> base.nchan,
          ebins |-> base.ebins, de |-> base.de, emid |-> base.emid,
          sigma |-> sigma,
          nH |-> <<nH, 22>>]

\* A constructor that does not look for the file.  Not what __init__ does;
\* the error property must tell it from TableAbsorbModelInit.
TableAbsorbModelInit_unchecked(exists, t, nH) ==
    TableAbsorbModelFields(
        SpectralModelInit(RMin(t.energy), RMax(t.energy), Len(t.cross_section)),
        t.cross_section, nH)

TableAbsorbModelInit(exists, t, nH) ==
    IF ~exists THEN [cls |-> "IOError"]
    ELSE TableAbsorbModelFields(
             SpectralModelInit(RMin(t.energy), RMax(t.energy),
                               Len(t.cross_section)),
             t.cross_section, nH)

\* TableAbsorbModel.prepare_spectrum(): pass.
absorb_prepare_spectrum(self) == [self |-> self, status |-> "ok", logged |-> {}]

\* np.exp(self.sigma*self.nH): the sign lost.  Not what get_spectrum
\* computes; the attenuation law must tell it from absorb_get_spectrum.
absorb_get_spectrum_unsigned(self) ==
    [self |-> self, status |-> "ok",
     value |-> [i \in 1..Len(self.sigma) |->
                   [exp |-> SciValue(SciMul(self.sigma[i], self.nH))]]]

\* TableAbsorbModel.get_spectrum(): np.exp(-self.sigma*self.nH).  The value
\* exp(x) is represented by its exponent, [exp |-> x].
absorb_get_spectrum(self) ==
    [self |-> self, status |-> "ok",
     value |-> [i \in 1..Len(self.sigma) |->
                   [exp |-> RNeg(SciValue(SciMul(self.sigma[i], self.nH)))]]]

(***************************************************************************)
(* The XSPEC-backed models.  PyXspec is one session per process:           *)
(* xspec.AllModels.setEnergies sets the energy array every model of the    *)
(* session is computed on, and Model.values(0) is the model evaluated on   *)
(* the session's current energies, one value per channel.  A channel value *)
(* is the record of what it was computed from: the model with its          *)
(* parameter values, and the channel's two edges.                          *)
(***************************************************************************)
\* "%f" % x: the decimal with six fractional digits nearest to the double
\* that x is, a tie going to the even last digit.
\*
\* floor(log2(p/q)) for p, q > 0.
RECURSIVE Log2Floor(_, _)
Log2Floor(p, q) ==
    IF p < q THEN Log2Floor(2 * p, q) - 1
    ELSE IF p \div 2 >= q THEN Log2Floor(p \div 2, q) + 1
    ELSE 0

\* (r * 2^k) mod q
RECURSIVE Doubled(_, _, _)
Doubled(r, k, q) == IF k = 0 THEN r ELSE Doubled((2 * r) % q, k - 1, q)

\* q with its factors of two taken out: 1 when p/q is a binary fraction,
\* which a double holds exactly.
RECURSIVE OddPart(_)
OddPart(q) == IF q % 2 = 0 THEN OddPart(q \div 2) ELSE q

\* The double nearest to p/q (53 significant bits) is above p/q, for p/q
\* positive and not a binary fraction.
double_above(p, q) == 2 * Doubled(p % q, 52 - Log2Floor(p, q), q) > q

\* <<floor(p/q * 10^n), remainder>> by long division, from <<p div q, p mod q>>.
RECURSIVE digits(_, _, _, _)
digits(acc, r, q, n) ==
    IF n = 0 THEN <<acc, r>>
    ELSE digits(10 * acc + (10 * r) \div q, (10 * r) % q, q, n - 1)

\* The last digit goes up: the rest is above one half, or it is one half and
\* either the double is exactly p/q and the digit is odd, or it is above p/q.
rounds_up(d, p, q) ==
    IF 2 * d[2] # q THEN 2 * d[2] > q
    ELSE IF OddPart(q) = 1 THEN d[1] % 2 = 1
    ELSE double_above(p, q)

rounded(d, p, q) == R(IF rounds_up(d, p, q) THEN d[1] + 1 ELSE d[1], 1000000)

format_magnitude(p, q) == rounded(digits(p \div q, p % q, q, 6), p, q)

format_f(x) ==
    IF x[1] < 0 THEN RNeg(format_magnitude(-x[1], x[2]))
    ELSE format_magnitude(x[1], x[2])

\* xspec.AllModels.setEnergies("%f %f %d lin" % (emin, emax, nchan))
setEnergies(x, emin, emax, nchan) ==
    [x EXCEPT !.energies = [emin |-> format_f(emin), emax |-> format_f(emax),
                            nchan |-> nchan]]

\* xspec.Xset.addModelString(k, v)
addModelString(x, k, v) == [x EXCEPT !.modelStrings = @ \cup {<<k, v>>}]

\* Model.values(0) of model object m in session x.
values_on(m, edges) ==
    [j \in 1..(Len(edges) - 1) |->
        [model |-> m, lo |-> edges[j], hi |-> edges[j + 1]]]
values(x, m) ==
    values_on(m, linspace(x.energies.emin, x.energies.emax,
                          x.energies.nchan + 1))

\* A parameter this program has not set: it has the tool's default value.
Default == << >>

\* self.model before prepare_spectrum: the attribute does not exist.
NoModel == [expr |-> "none"]

\* XSpecThermalModel.__init__(model_name, emin, emax, nchan), thermal_broad
\* and settings left at their defaults.
XSpecThermalModelFields(base, model_name) ==
    IF base.cls = "ValueError" THEN base
    ELSE [cls |-> "XSpecThermalModel", model_name |-> model_name,
          thermal_broad |-> FALSE,
          emin |-> base.emin, emax |-> base.emax, nchan |-> base.nchan,
          ebins |-> base.ebins, de |-> base.de, emid |-> base.emid,
          model |-> NoModel, norm |-> <<RZero, 0>>]

XSpecThermalModelInit(model_name, emin, emax, nchan) ==
    XSpecThermalModelFields(SpectralModelInit(emin, emax, nchan), model_name)

\* XSpecThermalModel.prepare_spectrum(zobs): returns the object and the
\* session after the call.
thermal_prepare_spectrum(self, x, zobs) ==
    [self |-> [self EXCEPT
                  !.model = [expr |-> self.model_name, norm |-> ROne,
                             Redshift |-> zobs, kT |-> Default,
                             Abundanc |-> Default],
                  !.norm = IF self.model_name = "bremss"
                           THEN <<R(151, 50), -15>> ELSE <<ROne, -14>>],
     xspec |-> IF self.thermal_broad
               THEN addModelString(
                        setEnergies(x, self.emin, self.emax, self.nchan),
                        "APECTHERMAL", "yes")
               ELSE setEnergies(x, self.emin, self.emax, self.nchan),
     status |-> "ok"]

\* np.array(self.model.values(0)) - cosmic_spec, channel by channel
difference(a, b) ==
    [j \in 1..Len(a) |-> [minuend |-> a[j], subtrahend |-> b[j]]]

\* A get_spectrum that takes the difference for every model name, "bremss"
\* included.  Not what the code does; the component law must tell it from
\* thermal_spectra.
thermal_spectra_uniform(self, x, cold, rich) ==
    [self |-> [self EXCEPT !.model = rich], xspec |-> x, status |-> "ok",
     arrays |-> <<[factor |-> self.norm, values |-> values(x, cold)],
                  [factor |-> self.norm,
                   values |-> difference(values(x, rich), values(x, cold))]>>]

\* The two arrays get_spectrum returns, each scaled by self.norm, and the
\* object with the parameters the call has left on its model.
thermal_spectra(self, x, cold, rich) ==
    IF self.model_name = "bremss"
    THEN [self |-> [self EXCEPT !.model = cold], xspec |-> x, status |-> "ok",
          arrays |-> <<[factor |-> self.norm, values |-> values(x, cold)],
                       [factor |-> self.norm, values |-> zeros(self.nchan)]>>]
    ELSE [self |-> [self EXCEPT !.model = rich], xspec |-> x, status |-> "ok",
          arrays |-> <<[factor |-> self.norm, values |-> values(x, cold)],
                       [factor |-> self.norm,
                        values |-> difference(values(x, rich),
                                              values(x, cold))]>>]

\* XSpecThermalModel.get_spectrum(kT): AttributeError on an object that
\* prepare_spectrum has not given a model.
thermal_get_spectrum(self, x, kT) ==
    IF self.model = NoModel
    THEN [self |-> self, xspec |-> x, status |-> "AttributeError",
          arrays |-> << >>]
    ELSE thermal_spectra(self, x,
                         [self.model EXCEPT !.kT = kT, !.Abundanc = RZero],
                         [self.model EXCEPT !.kT = kT, !.Abundanc = ROne])

\* XSpecAbsorbModel.__init__(model_name, nH, emin, emax, nchan)
XSpecAbsorbModelFields(base, model_name, nH) ==
    IF base.cls = "ValueError" THEN base
    ELSE [cls |-> "XSpecAbsorbModel", model_name |-> model_name, nH |-> nH,
          emin |-> base.emin, emax |-> base.emax, nchan |-> base.nchan,
          ebins |-> base.ebins, de |-> base.de, emid |-> base.emid,
          model |-> NoModel]

XSpecAbsorbModelInit(model_name, nH, emin, emax, nchan) ==
    XSpecAbsorbModelFields(SpectralModelInit(emin, emax, nchan), model_name, nH)

\* XSpecAbsorbModel.prepare_spectrum()
xabsorb_prepare_spectrum(self, x) ==
    [self |-> [self EXCEPT
                  !.model = [expr |-> self.model_name, times |-> "powerlaw",
                             norm |-> RDiv(RInt(self.nchan),
                                           RSub(self.emax, self.emin)),
                             PhoIndex |-> RZero, nH |-> Default]],
     xspec |-> setEnergies(x, self.emin, self.emax, self.nchan),
     status |-> "ok"]

\* XSpecAbsorbModel.get_spectrum()
xabsorb_spectrum(self, x, m) ==
    [self |-> [self EXCEPT !.model = m], xspec |-> x, status |-> "ok",
     arrays |-> <<[values |-> values(x, m)]>>]

xabsorb_get_spectrum(self, x) ==
    IF self.model = NoModel
    THEN [self |-> self, xspec |-> x, status |-> "AttributeError",
          arrays |-> << >>]
    ELSE xabsorb_spectrum(self, x, [self.model EXCEPT !.nH = self.nH])

(***************************************************************************)
(* Grid scenario: a caller constructs a SpectralModel from arbitrary       *)
(* (emin, emax, nchan), valid or not.                                      *)
(***************************************************************************)
NoObject == [cls |-> "None"]

GridEnergies == {RInt(k) : k \in 0..MaxEnergy}
GridChans == (-2)..MaxChan

\* No table, no file and no table-backed object takes part in this scenario.
NoTables == [Tvals |-> << >>, line |-> << >>, coco |-> << >>]
NoFiles == [line |-> FALSE, coco |-> FALSE, abs |-> FALSE]
NoCall == [op |-> "none"]
\* Neither XSPEC-backed instance exists.
Instances == {"A", "B"}
NoInstances == [i \in Instances |-> NoObject]
\* The XSPEC session before any call: no energies set by this program.
NoSession == [energies |-> [emin |-> RZero, emax |-> RZero, nchan |-> 0],
              modelStrings |-> {}]

GridInit ==
    /\ sm = NoObject
    /\ files = NoFiles
    /\ tab = NoTables
    /\ model = NoObject
    /\ prepared = NoObject
    /\ logged = {}
    /\ xspec = NoSession
    /\ inst = NoInstances
    /\ ret = NoCall

Constructed(emin, emax, nchan, obj) ==
    /\ sm' = IF obj.cls = "SpectralModel" THEN obj ELSE NoObject
    /\ ret' = [op |-> "SpectralModel", emin |-> emin, emax |-> emax,
               nchan |-> nchan,
               status |-> IF obj.cls = "SpectralModel" THEN "ok" ELSE obj.cls]

Construct ==
    /\ \E emin \in GridEnergies, emax \in GridEnergies, nchan \in GridChans :
           Constructed(emin, emax, nchan, SpectralModelInit(emin, emax, nchan))
    /\ UNCHANGED <<files, tab, model, prepared, logged, xspec, inst>>

GridNext == Construct

GridSpec == GridInit /\ [][GridNext]_vars

(***************************************************************************)
(* The APEC tables on disk.  A line file holds the temperature grid kT in  *)
(* block 1 and, for grid index i, the line list of that temperature in     *)
(* block i + 2; the continuum file holds its records in the same blocks.   *)
(***************************************************************************)
\* Strictly increasing temperatures 1, 2, 4, 7, 11, ... (unevenly spaced).
TempGrid(n) == [i \in 1..n |-> RInt(1 + (i * (i - 1)) \div 2)]

\* Rest energies hc/lambda a tabulated line may have: 1, 3/2, ..., MaxEnergy.
RestEnergies == {R(k, 2) : k \in 2..(2 * MaxEnergy)}

\* The line list of block b: a hydrogen line at rest energy E whose amplitude
\* grows with the block, an iron line at 5/2 keV, and an oxygen and an iron
\* line outside every energy grid of the model (1/2 keV, MaxEnergy + 1 keV).
LineRows(b, E) ==
    << [element |-> 1, lambda |-> hc_over_energy(E), epsilon |-> RInt(b)],
       [element |-> 26, lambda |-> hc_over_energy(R(5, 2)),
        epsilon |-> R(1, b)],
       [element |-> 8, lambda |-> hc_over_energy(RHalf), epsilon |-> RInt(7)],
       [element |-> 26, lambda |-> hc_over_energy(RInt(MaxEnergy + 1)),
        epsilon |-> RInt(5)] >>

\* The continuum records of block b: none, or records of hydrogen (one of an
\* ion, rmJ = 1, before the element's own) and of iron.  Arrays are padded
\* beyond N_Cont and N_Pseudo.
CocoRows(b, on) ==
    IF ~on THEN << >>
    ELSE << [Z |-> 1, rmJ |-> 1, N_Cont |-> 1,
             E_Cont |-> <<RInt(1), RZero, RZero>>,
             Continuum |-> <<RInt(9), RZero, RZero>>,
             N_Pseudo |-> 1,
             E_Pseudo |-> <<RInt(1), RZero, RZero>>,
             Pseudo |-> <<RInt(9), RZero, RZero>>],
            [Z |-> 1, rmJ |-> 0, N_Cont |-> 3,
             E_Cont |-> <<RInt(1), RInt(2), RInt(4)>>,
             Continuum |-> <<RInt(b), RInt(1), RInt(2)>>,
             N_Pseudo |-> 2,
             E_Pseudo |-> <<RInt(1), RInt(3), RZero>>,
             Pseudo |-> <<RZero, RInt(b), RInt(9)>>],
            [Z |-> 26, rmJ |-> 0, N_Cont |-> 2,
             E_Cont |-> <<RInt(2), RInt(3), RZero>>,
             Continuum |-> <<RInt(1), RInt(b), RInt(9)>>,
             N_Pseudo |-> 1,
             E_Pseudo |-> <<RInt(2), RZero, RZero>>,
             Pseudo |-> <<RHalf, RInt(9), RInt(9)>>] >>

Tables(n, E, on) ==
    [Tvals |-> TempGrid(n),
     line |-> [b \in 2..(n + 1) |-> LineRows(b, E)],
     coco |-> [b \in 2..(n + 1) |-> CocoRows(b, on)]]

(***************************************************************************)
(* Table scenario: the life of one table-backed model object.  The caller  *)
(* is sequential: it takes the outcome of a call (Return) before it makes  *)
(* the next call.                                                          *)
(***************************************************************************)
Redshifts == {RInt(k) : k \in 0..MaxRedshift}
Columns == {RInt(k) : k \in 0..MaxColumn}

\* Query temperatures: every half-integer from 1/2 to one above the grid.
QueryTemps == LET top == tab.Tvals[Len(tab.Tvals)][1] + 1
              IN  {R(k, 2) : k \in 1..(2 * top)}

\* Elements asked of _make_spectrum directly: H, He (no table row), O, Fe.
QueryElements == {1, 2, 8, 26}

\* Block indices asked of _make_spectrum directly: the last block counted
\* from the end (-1), the two blocks before the tables (0, 1), every table
\* block (2..n+1) and one past the end of the file (n+2).
BlockIndices == (-1)..block_count(tab)

AllFiles == [line |-> TRUE, coco |-> TRUE, abs |-> TRUE]

\* The disk: either every file is present and the APEC tables are any of the
\* family, or some file is missing.
Disks ==
    {[files |-> AllFiles, tab |-> Tables(n, E, on)] :
        n \in 1..MaxTemps, E \in RestEnergies, on \in BOOLEAN}
    \cup
    {[files |-> f, tab |-> Tables(2, RInt(2), TRUE)] :
        f \in [line : BOOLEAN, coco : BOOLEAN, abs : BOOLEAN] \ {AllFiles}}

Init ==
    /\ sm = NoObject
    /\ \E d \in Disks : files = d.files /\ tab = d.tab
    /\ model = NoObject
    /\ prepared = NoObject
    /\ logged = {}
    /\ xspec = NoSession
    /\ inst = NoInstances
    /\ ret = NoCall

ApecConstruct ==
    /\ ret = NoCall
    /\ model = NoObject
    /\ \E nchan \in 1..MaxChan, thermal_broad \in BOOLEAN :
           /\ model' = TableApecModelInit(RInt(1), RInt(MaxEnergy - 1), nchan,
                                          thermal_broad)
           /\ ret' = [op |-> "TableApecModel", status |-> "ok"]
    /\ UNCHANGED <<sm, files, tab, prepared, logged, xspec, inst>>

Prepared(zobs, out) ==
    /\ model' = out.self
    /\ prepared' = IF out.status = "ok" THEN out.self ELSE prepared
    /\ logged' = logged \cup out.logged
    /\ ret' = [op |-> "prepare_spectrum", zobs |-> zobs, status |-> out.status]

ApecPrepare ==
    /\ ret = NoCall
    /\ model.cls = "TableApecModel"
    /\ \E zobs \in Redshifts :
           Prepared(zobs, prepare_spectrum(model, zobs, files, tab))
    /\ UNCHANGED <<sm, files, tab, xspec, inst>>

GotSpectrum(kT, out) ==
    /\ model' = out.self
    /\ ret' = [op |-> "get_spectrum", kT |-> kT, status |-> out.status,
               cosmic |-> out.cosmic, metal |-> out.metal]

ApecGetSpectrum ==
    /\ ret = NoCall
    /\ model.cls = "TableApecModel"
    /\ \E kT \in QueryTemps : GotSpectrum(kT, get_spectrum(model, tab, kT))
    /\ UNCHANGED <<sm, files, tab, prepared, logged, xspec, inst>>

MadeSpectrum(element, tindex, out) ==
    ret' = [op |-> "_make_spectrum", element |-> element, tindex |-> tindex,
            status |-> out.status, value |-> out.value]

ApecMakeSpectrum ==
    /\ ret = NoCall
    /\ model.cls = "TableApecModel"
    /\ \E element \in QueryElements, tindex \in BlockIndices :
           MadeSpectrum(element, tindex,
                        make_spectrum(model, tab, element, tindex))
    /\ UNCHANGED <<sm, files, tab, model, prepared, logged, xspec, inst>>

AbsorbConstructed(nH, obj) ==
    /\ model' = IF obj.cls = "TableAbsorbModel" THEN obj ELSE NoObject
    /\ ret' = [op |-> "TableAbsorbModel", nH |-> nH,
               status |-> IF obj.cls = "TableAbsorbModel" THEN "ok" ELSE obj.cls]

AbsorbConstruct ==
    /\ ret = NoCall
    /\ model = NoObject
    /\ \E nH \in Columns :
           AbsorbConstructed(nH, TableAbsorbModelInit(files.abs, AbsorbTable, nH))
    /\ UNCHANGED <<sm, files, tab, prepared, logged, xspec, inst>>

AbsorbPrepared(out) ==
    /\ model' = out.self
    /\ prepared' = out.self
    /\ logged' = logged \cup out.logged
    /\ ret' = [op |-> "absorb.prepare_spectrum", status |-> out.status]

AbsorbPrepare ==
    /\ ret = NoCall
    /\ model.cls = "TableAbsorbModel"
    /\ AbsorbPrepared(absorb_prepare_spectrum(model))
    /\ UNCHANGED <<sm, files, tab, xspec, inst>>

AbsorbGotSpectrum(out) ==
    /\ model' = out.self
    /\ ret' = [op |-> "absorb.get_spectrum", status |-> out.status,
               value |-> out.value]

AbsorbGetSpectrum ==
    /\ ret = NoCall
    /\ model.cls = "TableAbsorbModel"
    /\ AbsorbGotSpectrum(absorb_get_spectrum(model))
    /\ UNCHANGED <<sm, files, tab, prepared, logged, xspec, inst>>

\* The caller has taken the outcome of the last call.
Return ==
    /\ ret # NoCall
    /\ ret' = NoCall
    /\ UNCHANGED <<sm, files, tab, model, prepared, logged, xspec, inst>>

Next ==
    \/ ApecConstruct
    \/ ApecPrepare
    \/ ApecGetSpectrum
    \/ ApecMakeSpectrum
    \/ AbsorbConstruct
    \/ AbsorbPrepare
    \/ AbsorbGetSpectrum
    \/ Return

Spec == Init /\ [][Next]_vars

(***************************************************************************)
(* XSPEC scenario: one caller constructs, prepares and queries two         *)
(* XSPEC-backed instances, one call at a time, in any order.               *)
(***************************************************************************)
ThermalNames == {"apec", "bremss"}
AbsorbNames == {"wabs"}
XSpecEnergies == {RInt(MaxEnergy - 1), RInt(MaxEnergy)}

XSpecInit ==
    /\ sm = NoObject
    /\ files = NoFiles
    /\ tab = NoTables
    /\ model = NoObject
    /\ prepared = NoObject
    /\ logged = {}
    /\ xspec = NoSession
    /\ inst = NoInstances
    /\ ret = NoCall

XSpecConstructed(who, obj, op) ==
    /\ inst' = [inst EXCEPT ![who] = obj]
    /\ ret' = [op |-> op, who |-> who, status |-> "ok"]

XSpecThermalConstruct ==
    /\ ret = NoCall
    /\ \E who \in Instances, name \in ThermalNames,
          emax \in XSpecEnergies, nchan \in 1..MaxChan :
           /\ inst[who] = NoObject
           /\ XSpecConstructed(who,
                  XSpecThermalModelInit(name, RInt(1), emax, nchan),
                  "XSpecThermalModel")
    /\ UNCHANGED <<sm, files, tab, model, prepared, logged, xspec>>

XSpecAbsorbConstruct ==
    /\ ret = NoCall
    /\ \E who \in Instances, name \in AbsorbNames, nH \in Columns,
          emax \in XSpecEnergies, nchan \in 1..MaxChan :
           /\ inst[who] = NoObject
           /\ XSpecConstructed(who,
                  XSpecAbsorbModelInit(name, nH, RInt(1), emax, nchan),
                  "XSpecAbsorbModel")
    /\ UNCHANGED <<sm, files, tab, model, prepared, logged, xspec>>

XSpecCalled(who, op, args, out) ==
    /\ inst' = [inst EXCEPT ![who] = out.self]
    /\ xspec' = out.xspec
    /\ ret' = [op |-> op, who |-> who, args |-> args, status |-> out.status,
               arrays |-> IF op = "xspec.get_spectrum" THEN out.arrays
                          ELSE << >>]

XSpecThermalPrepare ==
    /\ ret = NoCall
    /\ \E who \in Instances, zobs \in Redshifts :
           /\ inst[who].cls = "XSpecThermalModel"
           /\ XSpecCalled(who, "xspec.prepare_spectrum", <<zobs>>,
                          thermal_prepare_spectrum(inst[who], xspec, zobs))
    /\ UNCHANGED <<sm, files, tab, model, prepared, logged>>

XSpecThermalGetSpectrum ==
    /\ ret = NoCall
    /\ \E who \in Instances, kT \in {RInt(1), RInt(2)} :
           /\ inst[who].cls = "XSpecThermalModel"
           /\ XSpecCalled(who, "xspec.get_spectrum", <<kT>>,
                          thermal_get_spectrum(inst[who], xspec, kT))
    /\ UNCHANGED <<sm, files, tab, model, prepared, logged>>

XSpecAbsorbPrepare ==
    /\ ret = NoCall
    /\ \E who \in Instances :
           /\ inst[who].cls = "XSpecAbsorbModel"
           /\ XSpecCalled(who, "xspec.prepare_spectrum", << >>,
                          xabsorb_prepare_spectrum(inst[who], xspec))
    /\ UNCHANGED <<sm, files, tab, model, prepared, logged>>

XSpecAbsorbGetSpectrum ==
    /\ ret = NoCall
    /\ \E who \in Instances :
           /\ inst[who].cls = "XSpecAbsorbModel"
           /\ XSpecCalled(who, "xspec.get_spectrum", << >>,
                          xabsorb_get_spectrum(inst[who], xspec))
    /\ UNCHANGED <<sm, files, tab, model, prepared, logged>>

XSpecNext ==
    \/ XSpecThermalConstruct
    \/ XSpecAbsorbConstruct
    \/ XSpecThermalPrepare
    \/ XSpecThermalGetSpectrum
    \/ XSpecAbsorbPrepare
    \/ XSpecAbsorbGetSpectrum
    \/ Return

XSpecSpec == XSpecInit /\ [][XSpecNext]_vars

(***************************************************************************)
(* Properties.                                                             *)
(***************************************************************************)
\* The last call was get_spectrum on a TableApecModel and it returned.
Returned == ret.op = "get_spectrum" /\ ret.status = "ok"

\* 0-based grid temperature T[i] of the prepared model.
T(i) == model.Tvals[i + 1]
NTemps == Len(model.Tvals)

\* The sum of _make_spectrum over an element set at table block b.
BlockSum(elems, b) ==
    sum_elements(model, tab, elems, 1, b, zeros(model.nchan)).value

\* (1 - dT) * left + dT * right, channel by channel.
Interpolated(left, right, dT) ==
    [j \in 1..model.nchan |->
        NAdd(NScale(RSub(ROne, dT), left[j]), NScale(dT, right[j]))]

\* C1 (as claimed): a query below T[0], or at or above T[n-1], returns two
\* all-zero arrays of length nchan.
C1_OutOfRangeIsZero ==
    (Returned /\ (RLt(ret.kT, T(0)) \/ RLe(T(NTemps - 1), ret.kT)))
        => /\ ret.cosmic = zeros(model.nchan)
           /\ ret.metal = zeros(model.nchan)

\* C2 (as claimed): a query exactly at a grid temperature T[i], i <= n-2,
\* selects tindex = i, has dT = 0 and returns the element sums of the left
\* table block i + 2.
C2_GridPointIsLeftBlock ==
    Returned =>
        \A i \in 0..(NTemps - 2) :
            ret.kT = T(i) =>
                /\ temperature_index(model, ret.kT) = i
                /\ interpolation_fraction(model, ret.kT, i) = RZero
                /\ ret.cosmic = BlockSum(cosmic_elem, i + 2)
                /\ ret.metal = BlockSum(metal_elem, i + 2)

\* The amplitude the selected rows from row k on hold at energies in [lo, hi).
RECURSIVE AmplitudeIn(_, _, _, _)
AmplitudeIn(rows, k, lo, hi) ==
    IF k > Len(rows) THEN RZero
    ELSE RAdd(IF RLe(lo, line_E0(model, rows[k])) /\ RLt(line_E0(model, rows[k]), hi)
              THEN rows[k].epsilon ELSE RZero,
              AmplitudeIn(rows, k + 1, lo, hi))

\* The table block the last _make_spectrum call read, the rows it selected
\* there and the continuum it added.
MadeBlock == block_of(tab, ret.tindex)
MadeRows == selected_lines(model, tab, ret.element, MadeBlock)
MadeContinuum ==
    add_continuum(model, zeros(model.nchan),
                  continuum_records(tab, ret.element, MadeBlock))

\* The last call was _make_spectrum without broadening and it returned.
MadeUnbroadened ==
    ret.op = "_make_spectrum" /\ ret.status = "ok" /\ ~model.thermal_broad

\* C3 (as claimed): without broadening every selected line is deposited in a
\* channel 0 <= j < nchan with bin_edges[j] <= E0 < bin_edges[j+1], so each
\* channel of the line spectrum holds the amplitude of the lines whose
\* observed energy lies in it.
C3_LineInItsOwnChannel ==
    MadeUnbroadened =>
        /\ \A k \in 1..Len(MadeRows) :
               \E j \in 1..model.nchan :
                   /\ RLe(model.ebins[j], line_E0(model, MadeRows[k]))
                   /\ RLt(line_E0(model, MadeRows[k]), model.ebins[j + 1])
        /\ \A j \in 1..model.nchan :
               ret.value[j] =
                   NAdd(Num(AmplitudeIn(MadeRows, 1, model.ebins[j],
                                        model.ebins[j + 1])),
                        MadeContinuum[j])

\* The last call constructed a SpectralModel from these arguments.
GridCall == ret.op = "SpectralModel"
ValidGrid == RLt(ret.emin, ret.emax) /\ ret.nchan >= 1

\* C4 (as claimed): emin >= emax or nchan <= 0 fails at construction and no
\* model object is produced.
C4_InvalidGridRejected ==
    (GridCall /\ ~ValidGrid) => (ret.status # "ok" /\ sm = NoObject)

\* C5: a valid (emin, emax, nchan) yields nchan + 1 strictly increasing edges
\* from emin to emax, nchan positive widths with edge + width = next edge,
\* and nchan centers with 2 * center = edge + next edge.
C5_GridWellFormed ==
    (GridCall /\ ValidGrid) =>
        /\ ret.status = "ok"
        /\ Len(sm.ebins) = ret.nchan + 1
        /\ sm.ebins[1] = ret.emin
        /\ sm.ebins[ret.nchan + 1] = ret.emax
        /\ Len(sm.de) = ret.nchan
        /\ Len(sm.emid) = ret.nchan
        /\ \A i \in 1..ret.nchan :
               /\ RLt(sm.ebins[i], sm.ebins[i + 1])
               /\ RLt(RZero, sm.de[i])
               /\ RAdd(sm.ebins[i], sm.de[i]) = sm.ebins[i + 1]
               /\ RAdd(sm.emid[i], sm.emid[i]) = RAdd(sm.ebins[i], sm.ebins[i + 1])

\* A valid grid of at least three channels whose inner edges are not integers.
C5_Witness ==
    /\ GridCall /\ ValidGrid /\ ret.status = "ok"
    /\ ret.nchan >= 3
    /\ sm.ebins[2][2] # 1

\* The last call was get_spectrum on an XSPEC-backed instance and it returned.
XSpecReturned == ret.op = "xspec.get_spectrum" /\ ret.status = "ok"

\* C8 (as claimed): every array an XSPEC-backed instance returns has the
\* length of that instance's own nchan, and its channels are the channels
\* of that instance's own grid, whichever instance was prepared last.
C8_AlignedToOwnGrid ==
    XSpecReturned =>
        /\ \A k \in 1..Len(ret.arrays) :
               Len(ret.arrays[k].values) = inst[ret.who].nchan
        /\ \A j \in 1..Len(ret.arrays[1].values) :
               /\ j <= inst[ret.who].nchan
               /\ ret.arrays[1].values[j].lo = inst[ret.who].ebins[j]
               /\ ret.arrays[1].values[j].hi = inst[ret.who].ebins[j + 1]

\* Both instances are prepared, on different grids, and the one that was
\* not prepared last has been queried.
C8_Witness ==
    /\ XSpecReturned
    /\ \A who \in Instances :
           inst[who].cls # "None" /\ inst[who].model # NoModel
    /\ inst["A"].ebins # inst["B"].ebins
    /\ xspec.energies.nchan # inst[ret.who].nchan

\* The last call was XSpecThermalModel.get_spectrum(kT) and it returned.
ThermalReturned ==
    XSpecReturned /\ inst[ret.who].cls = "XSpecThermalModel"

\* The tool's per-channel values for the queried model at temperature kT and
\* the given abundance, on the session's energies.
Reading(abund) ==
    values(xspec, [inst[ret.who].model EXCEPT !.kT = ret.args[1],
                                              !.Abundanc = abund])
MetalDifference ==
    [j \in 1..Len(Reading(ROne)) |->
        [minuend |-> Reading(ROne)[j], subtrahend |-> Reading(RZero)[j]]]
NormOf(name) ==
    IF name = "bremss" THEN <<R(151, 50), -15>> ELSE <<ROne, -14>>

\* C11 (as claimed): for any model name the temperature is set to kT, the
\* trace component is the values at abundance 0, the abundance is then set
\* to 1 and the metal component is (values at 1) - (values at 0); both are
\* scaled by 3.02e-15 for "bremss" and 1.0e-14 otherwise.
C11_MetalIsDifferenceForAnyModel ==
    ThermalReturned =>
        /\ inst[ret.who].model.kT = ret.args[1]
        /\ inst[ret.who].model.Abundanc = ROne
        /\ ret.arrays[1] = [factor |-> NormOf(inst[ret.who].model_name),
                            values |-> Reading(RZero)]
        /\ ret.arrays[2] = [factor |-> NormOf(inst[ret.who].model_name),
                            values |-> MetalDifference]

\* C11 (amended): as claimed for every model name but "bremss"; for "bremss"
\* the abundance stays 0 and the metal component is nchan zeros (scaled by
\* the same constant), no second reading being taken.
C11_MetalIsDifferenceExceptBremss ==
    ThermalReturned =>
        /\ inst[ret.who].model.kT = ret.args[1]
        /\ ret.arrays[1] = [factor |-> NormOf(inst[ret.who].model_name),
                            values |-> Reading(RZero)]
        /\ IF inst[ret.who].model_name = "bremss"
           THEN /\ inst[ret.who].model.Abundanc = RZero
                /\ ret.arrays[2] = [factor |-> <<R(151, 50), -15>>,
                                    values |-> zeros(inst[ret.who].nchan)]
           ELSE /\ inst[ret.who].model.Abundanc = ROne
                /\ ret.arrays[2] = [factor |-> <<ROne, -14>>,
                                    values |-> MetalDifference]

\* A "bremss" model and, in the same session, another model have both been
\* queried; the last query was the "bremss" one on a grid of two channels
\* or more.
C11_Witness ==
    /\ ThermalReturned
    /\ inst[ret.who].model_name = "bremss"
    /\ inst[ret.who].nchan >= 2
    /\ \E other \in Instances :
           /\ inst[other].cls = "XSpecThermalModel"
           /\ inst[other].model_name = "apec"
           /\ inst[other].model # NoModel
           /\ inst[other].model.Abundanc = ROne

\* exp(x) lies in [0, 1] exactly when x <= 0, and is 1 exactly when x = 0.
InUnitInterval(v) == RLe(v.exp, RZero)
IsOne(v) == v.exp = RZero

\* C12: the column density is the constructor input times 10^22; a query
\* returns exp(-sigma[i] * column density) for each of the nchan channels
\* (the powers 10^-22 of the cross-section and 10^22 of the column density
\* cancel), every value in [0, 1], and every value 1 when the column density
\* is 0.
C12_AttenuationInUnitInterval ==
    /\ (ret.op = "TableAbsorbModel" /\ ret.status = "ok") =>
           /\ model.nH = <<ret.nH, 22>>
           /\ Len(model.sigma) = model.nchan
    /\ ret.op = "absorb.get_spectrum" =>
           /\ Len(ret.value) = model.nchan
           /\ \A i \in 1..model.nchan :
                  /\ AbsorbTable.cross_section[i][2] + model.nH[2] = 0
                  /\ ret.value[i].exp =
                         RNeg(RMul(AbsorbTable.cross_section[i][1],
                                   model.nH[1]))
                  /\ InUnitInterval(ret.value[i])
                  /\ model.nH[1] = RZero => IsOne(ret.value[i])

\* A query at a positive column density with a channel attenuated below 1
\* and a channel of zero cross-section left at 1.
C12_Witness ==
    /\ ret.op = "absorb.get_spectrum"
    /\ RLt(RZero, model.nH[1])
    /\ \E i \in 1..model.nchan : RLt(ret.value[i].exp, RZero)
    /\ \E i \in 1..model.nchan : IsOne(ret.value[i])

\* The last call was _make_spectrum with broadening and it returned.
MadeBroadened ==
    ret.op = "_make_spectrum" /\ ret.status = "ok" /\ model.thermal_broad

\* The sum over all channels of what the last _make_spectrum call returned,
\* less the continuum it added: the broadened lines' total on the grid.
RECURSIVE TotalFrom(_, _)
TotalFrom(v, j) ==
    IF j > Len(v) THEN Num(RZero) ELSE NAdd(v[j], TotalFrom(v, j + 1))
LinesOnGrid == NSub(TotalFrom(ret.value, 1), TotalFrom(MadeContinuum, 1))

\* The amplitudes of rows k.., and the part of them whose profile, at the
\* width the call computed, lies between the first and the last bin edge.
RECURSIVE AmplitudeFrom(_, _)
AmplitudeFrom(rows, k) ==
    IF k > Len(rows) THEN RZero
    ELSE RAdd(rows[k].epsilon, AmplitudeFrom(rows, k + 1))
InBand(row, sig) ==
    NScale(row.epsilon,
           NSub(norm_cdf(line_E0(model, row), sig, model.ebins[model.nchan + 1]),
                norm_cdf(line_E0(model, row), sig, model.ebins[1])))
RECURSIVE InBandFrom(_, _)
InBandFrom(rows, k) ==
    IF k > Len(rows) THEN Num(RZero)
    ELSE NAdd(InBand(rows[k],
                     line_sigma(line_E0(model, rows[k]),
                                PyAt(model.Tvals, ret.tindex), ret.element)),
              InBandFrom(rows, k + 1))

\* What a channel value can be at most: a Gaussian cdf lies strictly between
\* 1/2 and 1 above its mean and strictly between 0 and 1/2 below it.
PhiHigh(k) == IF RLt(k.x, k.E) THEN RHalf ELSE ROne
PhiLow(k) == IF RLt(k.E, k.x) THEN RHalf ELSE RZero
TermHigh(p) ==
    IF RLt(RZero, p[2]) THEN RMul(p[2], PhiHigh(p[1]))
    ELSE RMul(p[2], PhiLow(p[1]))
RECURSIVE HighOver(_)
HighOver(f) ==
    IF f = {} THEN RZero
    ELSE RAdd(TermHigh(CHOOSE p \in f : TRUE),
              HighOver(f \ {CHOOSE p \in f : TRUE}))
High(v) == RAdd(v.q, HighOver(v.phi))

\* C13 (as claimed): with broadening, each selected line's contributions
\* over all channels sum to its amplitude, none of the profile being lost:
\* the lines' total on the grid is not bounded below the sum of the
\* amplitudes.
C13_BroadenedLineKeepsAmplitude ==
    MadeBroadened => RLe(AmplitudeFrom(MadeRows, 1), High(LinesOnGrid))

\* C13 (amended): with broadening, each selected line's contributions over
\* all channels sum to its amplitude times the part of its profile between
\* emin and emax, cdf(emax) - cdf(emin), which is at most the amplitude.
C13_BroadenedLineKeepsInBandPart ==
    MadeBroadened =>
        /\ LinesOnGrid = InBandFrom(MadeRows, 1)
        /\ RLe(High(LinesOnGrid), AmplitudeFrom(MadeRows, 1))

\* A broadened call on a grid of two channels or more that selected a line
\* whose observed energy is the lowest bin edge: half of it is off the grid.
C13_Witness ==
    /\ MadeBroadened
    /\ model.nchan >= 2
    /\ \E k \in 1..Len(MadeRows) : line_E0(model, MadeRows[k]) = model.ebins[1]
    /\ RLt(RZero, High(LinesOnGrid))
    /\ RLt(High(LinesOnGrid), AmplitudeFrom(MadeRows, 1))

\* The broadened lines of the last _make_spectrum call's block, their widths
\* taken at the grid temperature of that block, T[b-2] for block b.
LinesAtBlockTemperature ==
    broaden_lines(model, MadeRows, 1, zeros(model.nchan),
                  T(MadeBlock - 2), ret.element)

\* C14 (as claimed): with broadening, _make_spectrum on table block b, for
\* every block b = 2..n+1 of the file, computes each line's Doppler width
\* from T[b-2], so what it returns is the continuum plus the lines broadened
\* at that temperature.
C14_WidthFromBlockTemperature ==
    (ret.op = "_make_spectrum" /\ model.thermal_broad
        /\ model.assigned = PreparedAttrs /\ ret.tindex \in DOMAIN tab.line) =>
        /\ ret.status = "ok"
        /\ \A j \in 1..model.nchan :
               ret.value[j] =
                   NAdd(LinesAtBlockTemperature[j], MadeContinuum[j])

\* The last call was get_spectrum(kT) on a prepared TableApecModel with kT
\* strictly inside the tabulated range.
QueriedInRange ==
    /\ ret.op = "get_spectrum"
    /\ model.assigned = PreparedAttrs
    /\ NTemps >= 2
    /\ RLt(T(0), ret.kT) /\ RLt(ret.kT, T(NTemps - 1))

\* C15 (as claimed): with or without broadening, a query strictly inside the
\* tabulated range completes and returns two spectra of nchan channels: no
\* index it uses is out of bounds, in any interval of the grid.
C15_InRangeQueryCompletes ==
    QueriedInRange =>
        /\ ret.status = "ok"
        /\ Len(ret.cosmic) = model.nchan
        /\ Len(ret.metal) = model.nchan

\* How often atomic number z occurs in a list of elements.
Occurrences(elems, z) == Cardinality({k \in 1..Len(elems) : elems[k] = z})
AllElements == [z \in 1..30 |-> z]

\* C16: every atomic number 1..30 is in exactly one of the two element lists,
\* once, the lists hold nothing else, and each element has an atomic-mass
\* entry; so in a query that interpolates, the two returned components
\* together are the interpolation of the sums over all thirty elements, each
\* taken once per block.
C16_ElementsPartitioned ==
    /\ \A z \in 1..30 :
           /\ Occurrences(cosmic_elem, z) + Occurrences(metal_elem, z) = 1
           /\ PyIndexOk(Len(A), z)
    /\ Len(cosmic_elem) + Len(metal_elem) = 30
    /\ (Returned /\ NTemps >= 2
           /\ temperature_index(model, ret.kT) \in 0..(NTemps - 2)) =>
           SAdd(ret.cosmic, ret.metal) =
               Interpolated(
                   BlockSum(AllElements, temperature_index(model, ret.kT) + 2),
                   BlockSum(AllElements, temperature_index(model, ret.kT) + 3),
                   interpolation_fraction(model, ret.kT,
                                          temperature_index(model, ret.kT)))

\* A query that interpolated and returned a trace component and a metal
\* component that are both nonzero and differ.
C16_Witness ==
    /\ Returned /\ NTemps >= 2
    /\ temperature_index(model, ret.kT) \in 0..(NTemps - 2)
    /\ ret.cosmic # zeros(model.nchan)
    /\ ret.metal # zeros(model.nchan)
    /\ ret.cosmic # ret.metal

\* The last call was get_spectrum on a prepared TableApecModel and it did
\* not take the zero-spectrum early return.
Interpolating ==
    /\ ret.op = "get_spectrum"
    /\ model.assigned = PreparedAttrs
    /\ temperature_index(model, ret.kT) \in 0..(NTemps - 2)

\* x lies between a and b, whichever is the larger.
Between(x, a, b) ==
    \/ RLe(a, x) /\ RLe(x, b)
    \/ RLe(b, x) /\ RLe(x, a)
\* v is the combination (1 - dT) * left + dT * right and, in every channel
\* whose values are rationals, lies between left and right.
AllBetween(v, left, right, dT) ==
    /\ v = Interpolated(left, right, dT)
    /\ \A j \in 1..model.nchan :
           (v[j].phi = {} /\ left[j].phi = {} /\ right[j].phi = {}) =>
               Between(v[j].q, left[j].q, right[j].q)

\* C17: in a query that does not take the early return, the selected
\* interval brackets kT and 0 <= dT <= 1, so each returned component lies,
\* channel by channel, between the left and the right block sum.
C17_NeverExtrapolated ==
    Interpolating =>
        /\ RLe(T(temperature_index(model, ret.kT)), ret.kT)
        /\ RLe(ret.kT, T(temperature_index(model, ret.kT) + 1))
        /\ RLe(RZero, interpolation_fraction(model, ret.kT,
                          temperature_index(model, ret.kT)))
        /\ RLe(interpolation_fraction(model, ret.kT,
                   temperature_index(model, ret.kT)), ROne)
        /\ ret.status = "ok" =>
               /\ AllBetween(ret.cosmic,
                      BlockSum(cosmic_elem, temperature_index(model, ret.kT) + 2),
                      BlockSum(cosmic_elem, temperature_index(model, ret.kT) + 3),
                      interpolation_fraction(model, ret.kT,
                          temperature_index(model, ret.kT)))
               /\ AllBetween(ret.metal,
                      BlockSum(metal_elem, temperature_index(model, ret.kT) + 2),
                      BlockSum(metal_elem, temperature_index(model, ret.kT) + 3),
                      interpolation_fraction(model, ret.kT,
                          temperature_index(model, ret.kT)))

\* A returning query in the second interval of the grid, at its upper end
\* (dT = 1), and so off the left block's sum.
C17_Witness ==
    /\ Interpolating
    /\ ret.status = "ok"
    /\ temperature_index(model, ret.kT) = 1
    /\ ret.kT = T(2)
    /\ ret.cosmic # BlockSum(cosmic_elem, 3)

\* The last call was prepare_spectrum on a TableApecModel with a file missing.
PrepareWithoutFile ==
    ret.op = "prepare_spectrum" /\ (~files.line \/ ~files.coco)

\* C6 (as claimed): with the line file or the continuum file missing,
\* prepare raises and leaves the object unprepared: no table handle is
\* retained and no temperature grid, wavelength bound or scale factor is set.
C6_FailedPrepareLeavesNothing ==
    PrepareWithoutFile => (ret.status = "IOError" /\ model.assigned = {})

\* C7: for kT strictly between T[i] and T[i+1] each returned component is
\* (1-dT)*left + dT*right, left and right being the element sums at blocks
\* i+2 and i+3 and dT = (kT - T[i]) / (T[i+1] - T[i]).
C7_LinearInterpolation ==
    Returned =>
        \A i \in 0..(NTemps - 2) :
            (RLt(T(i), ret.kT) /\ RLt(ret.kT, T(i + 1))) =>
                LET frac == RDiv(RSub(ret.kT, T(i)), RSub(T(i + 1), T(i)))
                IN  /\ ret.cosmic = Interpolated(BlockSum(cosmic_elem, i + 2),
                                                 BlockSum(cosmic_elem, i + 3), frac)
                    /\ ret.metal = Interpolated(BlockSum(metal_elem, i + 2),
                                                BlockSum(metal_elem, i + 3), frac)

\* A query strictly inside the second grid interval, off its midpoint, whose
\* two blocks differ and whose result is neither block's sum.
C7_Witness ==
    /\ Returned
    /\ NTemps >= 3
    /\ RLt(T(1), ret.kT) /\ RLt(ret.kT, T(2))
    /\ RAdd(ret.kT, ret.kT) # RAdd(T(1), T(2))
    /\ ret.cosmic # BlockSum(cosmic_elem, 3)
    /\ ret.cosmic # BlockSum(cosmic_elem, 4)
    /\ ret.metal # zeros(model.nchan)

\* C9: in the Prepared state a query leaves the object as prepare left it,
\* and returns what the same query returns as the first one after prepare.
C9_QueryLeavesStateUnchanged ==
    /\ (ret.op = "get_spectrum" /\ model.assigned = PreparedAttrs) =>
           /\ model = prepared
           /\ <<ret.status, ret.cosmic, ret.metal>> =
                  LET first == get_spectrum(prepared, tab, ret.kT)
                  IN  <<first.status, first.cosmic, first.metal>>
    /\ (ret.op = "absorb.get_spectrum" /\ prepared # NoObject) =>
           /\ model = prepared
           /\ ret.value = absorb_get_spectrum(prepared).value

\* A query of a prepared, redshifted model that returned a nonzero spectrum.
C9_Witness ==
    /\ Returned
    /\ model.assigned = PreparedAttrs
    /\ model.scale_factor # ROne
    /\ ret.cosmic # zeros(model.nchan)

\* C10 (as claimed): constructing a TableAbsorbModel on an absent file does
\* not fail; the prepare call raises and logs the error.
C10_MissingTableRaisedAtPrepare ==
    /\ (ret.op = "TableAbsorbModel" /\ ~files.abs) => ret.status = "ok"
    /\ (ret.op = "absorb.prepare_spectrum" /\ ~files.abs) =>
           (ret.status = "IOError" /\ logged # {})

\* C10 (amended): constructing a TableAbsorbModel on an absent file raises
\* IOError, produces no object and logs nothing; prepare never raises.
C10_MissingTableRaisedAtConstruction ==
    /\ (ret.op = "TableAbsorbModel" /\ ~files.abs) =>
           (ret.status = "IOError" /\ model = NoObject /\ logged = {})
    /\ ret.op = "absorb.prepare_spectrum" => (ret.status = "ok" /\ files.abs)

\* A construction on an absent file has raised.
C10_Witness ==
    ret.op = "TableAbsorbModel" /\ ~files.abs /\ ret.status = "IOError"

====
